---- MODULE Spec2Model ----
(***************************************************************************)
(* The transcript cache of the YouTube AI tutor backend (src/main.py) and  *)
(* the five request handlers that read and write it, as run by a threaded  *)
(* HTTP server: every request runs its handler in a thread of its own, and *)
(* the threads interleave between two accesses of the shared dictionary.   *)
(***************************************************************************)
EXTENDS Integers, Sequences, FiniteSets, TLC

(***************************************************************************)
(* Bounds and input domains                                                *)
(***************************************************************************)
\* number of request threads that can be in flight at the same time
NumThreads == 2

Threads == 1..NumThreads

\* how many different store sizes the history of one cache_status call keeps
MaxSeen == 1

\* how many pieces a url given to extract_video_id is put together from
MaxPieces == 4

\* the video ids the requests carry ("" is the missing / empty videoId)
VideoIds == {"a", "b"}

\* transcript[:3000] in ask_tutor
TruncateAt == 3000

(***************************************************************************)
(* Strings.  A text is the first `len` characters of the character stream  *)
(* named `src`; two texts are equal iff they have the same characters.     *)
(* The empty string is the empty prefix of every stream, so it has one     *)
(* canonical form.  None is Python's None.                                 *)
(***************************************************************************)
None == [src |-> "None", len |-> 0]

Str(src, len) == IF len = 0 THEN [src |-> "", len |-> 0] ELSE [src |-> src, len |-> len]

EmptyStr == Str("", 0)

\* len(s)
StrLen(s) == s.len

\* s[:n]
Slice(s, n) == IF s.len <= n THEN s ELSE Str(s.src, n)

\* the truth value Python gives a str or None in `if s:` / `if not s:`
Truthy(s) == s # None /\ s.len > 0

RECURSIVE SumSeq(_)
SumSeq(s) == IF s = <<>> THEN 0 ELSE Head(s) + SumSeq(Tail(s))

\* " ".join([entry['text'] for entry in transcript_list]): the texts of the
\* entries in order, one space between two neighbours
Join(transcript_list) ==
    IF Len(transcript_list.texts) = 0 THEN EmptyStr
    ELSE Str(transcript_list.src,
             SumSeq(transcript_list.texts) + (Len(transcript_list.texts) - 1))

\* what YouTubeTranscriptApi.get_transcript can return: a list of entries,
\* given by the lengths of their texts, of the upstream version `src`
TranscriptLists ==
    { [src |-> "",  texts |-> <<>>],
      [src |-> "u", texts |-> <<2>>],
      [src |-> "v", texts |-> <<1500, 1500>>] }

(***************************************************************************)
(* Dictionaries.  A dict is the sequence of its items in insertion order   *)
(* (the order Python iterates in); a key occurs in at most one item.       *)
(***************************************************************************)
EmptyDict == <<>>

\* list(d.keys())
Keys(d) == [i \in 1..Len(d) |-> d[i].k]

KeySet(d) == {d[i].k : i \in 1..Len(d)}

\* k in d
Has(d, k) == \E i \in 1..Len(d) : d[i].k = k

\* a lookup that ignores the key
GetFirst(d, k) == d[1].v

\* d[k], for a key d has
Get(d, k) == d[CHOOSE i \in 1..Len(d) : d[i].k = k].v

\* a store that replaces the dict by the one new item
PutAlone(d, k, v) == <<[k |-> k, v |-> v]>>

\* a store that keeps the value a key already has
PutKeepsExisting(d, k, v) ==
    IF \E i \in 1..Len(d) : d[i].k = k THEN d ELSE Append(d, [k |-> k, v |-> v])

\* d[k] = v: the item of k gets the value v in place, a new key is appended
Put(d, k, v) ==
    IF Has(d, k)
    THEN [i \in 1..Len(d) |-> IF d[i].k = k THEN [k |-> k, v |-> v] ELSE d[i]]
    ELSE Append(d, [k |-> k, v |-> v])

\* sum(len(transcript) for transcript in d.values()), run without interruption
RECURSIVE TotalSize(_)
TotalSize(d) == IF d = <<>> THEN 0 ELSE StrLen(Head(d).v) + TotalSize(Tail(d))

(***************************************************************************)
(* extract_video_id (lines 29-41).  A url is the sequence of its            *)
(* characters.  Each pattern is a list of literal alternatives followed by  *)
(* the group ([0-9A-Za-z_-]{11}); the .* that ends the first pattern takes  *)
(* part in no group.  re.search finds the leftmost position at which the    *)
(* pattern matches.                                                        *)
(***************************************************************************)
\* the {11} of the three patterns
IdLen == 11

\* [0-9A-Za-z_-]
IdChars ==
    { "0", "1", "2", "3", "4", "5", "6", "7", "8", "9",
      "A", "B", "C", "D", "E", "F", "G", "H", "I", "J", "K", "L", "M",
      "N", "O", "P", "Q", "R", "S", "T", "U", "V", "W", "X", "Y", "Z",
      "a", "b", "c", "d", "e", "f", "g", "h", "i", "j", "k", "l", "m",
      "n", "o", "p", "q", "r", "s", "t", "u", "v", "w", "x", "y", "z",
      "_", "-" }

\* the first pattern without its "/" alternative
patternsNoSlash ==
    << [alts |-> << <<"v", "=">> >>],
       [alts |-> << <<"e", "m", "b", "e", "d", "/">> >>],
       [alts |-> << <<"w", "a", "t", "c", "h", "?", "v", "=">> >>] >>

\* lines 31-35
patterns ==
    << [alts |-> << <<"v", "=">>, <<"/">> >>],
       [alts |-> << <<"e", "m", "b", "e", "d", "/">> >>],
       [alts |-> << <<"w", "a", "t", "c", "h", "?", "v", "=">> >>] >>

\* no match (re.search returns None) / a match with its group 1
NoMatch == [found |-> FALSE, group1 |-> <<>>]

Match(token) == [found |-> TRUE, group1 |-> token]

\* the literal lit stands in s at position i
LiteralAt(lit, s, i) ==
    /\ i + Len(lit) - 1 <= Len(s)
    /\ \A j \in 1..Len(lit) : s[i + j - 1] = lit[j]

\* the alternative alt, followed by IdLen characters of the class, stands in
\* s at position i
AltAt(alt, s, i) ==
    /\ LiteralAt(alt, s, i)
    /\ i + Len(alt) + IdLen - 1 <= Len(s)
    /\ \A j \in 0..(IdLen - 1) : s[i + Len(alt) + j] \in IdChars

\* the pattern matches at position i of s
MatchAt(pattern, s, i) == \E a \in 1..Len(pattern.alts) : AltAt(pattern.alts[a], s, i)

\* re.search(pattern, s): the match at the leftmost position, by the first
\* alternative that matches there
Search(pattern, s) ==
    LET at == {i \in 1..Len(s) : MatchAt(pattern, s, i)}
    IN  IF at = {} THEN NoMatch
        ELSE LET i == CHOOSE i \in at : \A j \in at : i <= j
                 a == CHOOSE a \in 1..Len(pattern.alts) :
                        /\ AltAt(pattern.alts[a], s, i)
                        /\ \A b \in 1..(a - 1) : ~AltAt(pattern.alts[b], s, i)
                 from == i + Len(pattern.alts[a])
             IN  Match(SubSeq(s, from, from + IdLen - 1))

\* lines 37-41 for the list ps of patterns: the group of the first pattern
\* that matches, None when none does
RECURSIVE ExtractWith(_, _)
ExtractWith(ps, url_) ==
    IF ps = <<>> THEN NoMatch
    ELSE IF Search(Head(ps), url_).found THEN Search(Head(ps), url_)
    ELSE ExtractWith(Tail(ps), url_)

extract_video_id(url_) == ExtractWith(patterns, url_)

\* The urls extract_video_id is given: up to MaxPieces pieces in a row, a
\* piece being a marker of one of the patterns, an 11-character id, one id
\* character or a character outside the class.
Pieces ==
    { <<"/">>, <<"v", "=">>,
      <<"e", "m", "b", "e", "d", "/">>,
      <<"w", "a", "t", "c", "h", "?", "v", "=">>,
      [i \in 1..IdLen |-> "A"], [i \in 1..IdLen |-> "B"],
      <<"C">>, <<"&">> }

RECURSIVE Flatten(_)
Flatten(ps) == IF ps = <<>> THEN <<>> ELSE Head(ps) \o Flatten(Tail(ps))

Urls == {Flatten(ps) : ps \in UNION {[1..n -> Pieces] : n \in 0..MaxPieces}}

(***************************************************************************)
(* State                                                                   *)
(***************************************************************************)
VARIABLES
    transcript_cache,  \* the dict the global name is bound to
    pc,                \* per thread: where its handler is
    req,               \* per thread: the request it serves
    loc,               \* per thread: the local variables of its handler
    resp,              \* per thread: the response it has sent
    hist,              \* history of the execution (not program state)
    url,               \* extract_video_id: the argument of the call
    match              \* extract_video_id: what the call returned

vars == <<transcript_cache, pc, req, loc, resp, hist>>

extractVars == <<url, match>>

\* extract_video_id has not been called / has returned m
NotCalled == [called |-> FALSE, found |-> FALSE, group1 |-> <<>>]

Returned(m) == [called |-> TRUE, found |-> m.found, group1 |-> m.group1]

NoReq == [endpoint |-> "none", data |-> "none", question |-> EmptyStr, video_id |-> ""]

\* An iterator over the values of a dict holds the dict object.  While the
\* global name is bound to that object (bound), the object is the store.
\* Once clear_cache has rebound the name, no thread but the iterator's
\* reaches the old object and nothing changes it any more: `resized` tells
\* whether its size had changed since the iterator was made, and the
\* iterator stands at the end of it (pos = used), the values it had not
\* yet yielded being added to the sum when the name is rebound.
NoIter == [bound |-> FALSE, resized |-> FALSE, used |-> 0, pos |-> 0]

NoContext == [transcript |-> None, suffix |-> ""]

NoLoc ==
    [ full_transcript  |-> None,       \* get_cached_transcript: the joined text
      video_transcript |-> None,       \* what get_cached_transcript returned
      context          |-> NoContext,  \* ask_tutor: the transcript part of context
      cached_videos    |-> <<>>,       \* cache_status: list of the keys
      it               |-> NoIter,     \* cache_status: the iterator over .values()
      total_size       |-> 0,          \* cache_status: the running sum
      cache_size       |-> 0 ]         \* clear_cache: len() before the rebinding

NoResp ==
    [ status |-> 0, by |-> "none", cached |-> FALSE, length |-> 0,
      count |-> 0, ids |-> <<>>, total |-> 0, removed |-> 0 ]

\* a JSON response built by the handler
Reply(status) == [NoResp EXCEPT !.status = status, !.by = "handler"]

\* the server's own answer to an exception that left the handler
Escaped == [NoResp EXCEPT !.status = 500, !.by = "server"]

Questions == {EmptyStr, Str("q", 5)}

(***************************************************************************)
(* History variables: what has happened so far, kept only to state the     *)
(* properties.  No action of the program reads them.                       *)
(***************************************************************************)
NoHist ==
    [ fetch       |-> "no",    \* the transcript service: no, called, ok, failed
      llm         |-> "no",    \* the LLM: no, called, ok, failed
      call        |-> "no",    \* get_cached_transcript: no, in, returned, raised
      fetches     |-> 0,       \* how often the request has called the transcript service
      llms        |-> 0,       \* how often the request has called the LLM
      quietStart  |-> FALSE,   \* cache_status began after a clear, and nothing was stored since
      promised    |-> None,    \* the transcript an earlier call had returned for the id
      overwritten |-> FALSE,   \* another call has stored a different transcript since
      overtaken   |-> FALSE,   \* another call stored the id while this one was fetching
      wroteLast   |-> FALSE,   \* this call's write of the id is the latest, no clear since
      totals      |-> {},      \* cache_status: total sizes of the stores that had the listed
      more        |-> FALSE ]  \*   keys during the call; more: there were over MaxSeen of them

NoId == [v \in VideoIds |-> None]

(***************************************************************************)
(* Init: the module has been imported, transcript_cache = {} (line 27), no *)
(* request is being served.                                                *)
(***************************************************************************)
Init ==
    /\ transcript_cache = EmptyDict
    /\ pc = [t \in Threads |-> "idle"]
    /\ req = [t \in Threads |-> NoReq]
    /\ loc = [t \in Threads |-> NoLoc]
    /\ resp = [t \in Threads |-> NoResp]
    /\ hist = [ th           |-> [t \in Threads |-> NoHist],
                lastRet      |-> NoId,
                quiet        |-> FALSE,
                preClearKeys |-> {} ]
    /\ url = <<>>
    /\ match = NotCalled

\* The requests a client can send to the five routes.  The body of a POST
\* (request.json) is a dict ("object") or anything else ("other": null, a
\* list, a string, a body that is no JSON, where data.get raises or
\* request.json itself does); a field the dict lacks reads as ''.
Requests ==
    {[endpoint |-> e, data |-> "none", question |-> EmptyStr, video_id |-> ""] :
        e \in {"health", "status", "clear"}}
    \cup {[endpoint |-> "ask", data |-> "object", question |-> q, video_id |-> v] :
            q \in Questions, v \in VideoIds \cup {""}}
    \cup {[endpoint |-> "transcript", data |-> "object", question |-> EmptyStr, video_id |-> v] :
            v \in VideoIds \cup {""}}
    \cup {[endpoint |-> e, data |-> "other", question |-> EmptyStr, video_id |-> ""] :
            e \in {"ask", "transcript"}}

\* the server hands request r to an idle thread, which runs the route's handler
Accept(t, r) ==
    /\ pc[t] = "idle"
    /\ req' = [req EXCEPT ![t] = r]

\* the handler returns a response
Respond(t, r) ==
    /\ pc' = [pc EXCEPT ![t] = "done"]
    /\ resp' = [resp EXCEPT ![t] = r]

\* the thread ends once the response is sent
Retire(t) ==
    /\ pc[t] = "done"
    /\ pc' = [pc EXCEPT ![t] = "idle"]
    /\ req' = [req EXCEPT ![t] = NoReq]
    /\ loc' = [loc EXCEPT ![t] = NoLoc]
    /\ resp' = [resp EXCEPT ![t] = NoResp]
    /\ UNCHANGED transcript_cache

(***************************************************************************)
(* GET /health (lines 66-73)                                               *)
(***************************************************************************)
HealthCheck(t) ==
    /\ \E r \in Requests : r.endpoint = "health" /\ Accept(t, r)
    /\ Respond(t, [Reply(200) EXCEPT !.count = Len(transcript_cache)])
    /\ UNCHANGED <<transcript_cache, loc>>

(***************************************************************************)
(* get_cached_transcript (lines 43-64), called by ask_tutor and by         *)
(* get_transcript.  Return and Raise continue in the caller.               *)
(***************************************************************************)
\* a context that takes the whole transcript
ContextWhole(video_transcript) ==
    IF Truthy(video_transcript)
    THEN [transcript |-> video_transcript, suffix |-> "..."]
    ELSE NoContext

\* the transcript part ask_tutor adds to the context (lines 98-100)
Context(video_transcript) ==
    IF Truthy(video_transcript)
    THEN [transcript |-> Slice(video_transcript, TruncateAt), suffix |-> "..."]
    ELSE NoContext

\* get_cached_transcript returns v to the handler of `endpoint`: ask_tutor
\* builds its context and calls the LLM (lines 97-103), get_transcript
\* answers (lines 142-151)
Return(t, endpoint, v, full) ==
    IF endpoint = "ask"
    THEN /\ loc' = [loc EXCEPT ![t].full_transcript = full,
                               ![t].video_transcript = v,
                               ![t].context = Context(v)]
         /\ pc' = [pc EXCEPT ![t] = "ask_llm"]
         /\ UNCHANGED resp
    ELSE /\ loc' = [loc EXCEPT ![t].full_transcript = full, ![t].video_transcript = v]
         /\ Respond(t, IF Truthy(v) THEN [Reply(200) EXCEPT !.length = StrLen(v)]
                                    ELSE Reply(404))

\* an exception reaches the except clause of ask_tutor or get_transcript,
\* which answers 500 (lines 126-129, 153-155)
Raise(t) ==
    /\ Respond(t, Reply(500))
    /\ UNCHANGED loc

\* a call that fetches whether or not the id is cached
GctCallRefresh(t, video_id) ==
    /\ pc' = [pc EXCEPT ![t] = "gct_fetch"]
    /\ UNCHANGED <<loc, resp>>

\* lines 45-51: if video_id in transcript_cache, go on to read the value;
\* else call the transcript service and wait for its reply
GctCall(t, video_id) ==
    /\ pc' = [pc EXCEPT ![t] = IF Has(transcript_cache, video_id) THEN "gct_read"
                                                                 ELSE "gct_fetch"]
    /\ UNCHANGED <<loc, resp>>

\* line 47: return transcript_cache[video_id]; KeyError when the name was
\* rebound to a new dict since line 45
GctRead(t) ==
    /\ pc[t] = "gct_read"
    /\ IF Has(transcript_cache, req[t].video_id)
       THEN Return(t, req[t].endpoint, Get(transcript_cache, req[t].video_id), None)
       ELSE Raise(t)
    /\ UNCHANGED <<transcript_cache, req>>

\* a fetch that stores None under the id when the service fails
GctFetchCachesFailure(t) ==
    /\ pc[t] = "gct_fetch"
    /\ \/ \E transcript_list \in TranscriptLists :
            /\ transcript_cache' = Put(transcript_cache, req[t].video_id, Join(transcript_list))
            /\ Return(t, req[t].endpoint, Join(transcript_list), Join(transcript_list))
       \/ /\ Return(t, req[t].endpoint, None, None)
          /\ transcript_cache' = Put(transcript_cache, req[t].video_id, None)
    /\ UNCHANGED req

\* lines 51-64: the transcript service replies.  With a list of entries the
\* joined text is stored under video_id and returned; with an exception the
\* function returns None and stores nothing.
GctFetch(t) ==
    /\ pc[t] = "gct_fetch"
    /\ \/ \E transcript_list \in TranscriptLists :
            /\ transcript_cache' = Put(transcript_cache, req[t].video_id, Join(transcript_list))
            /\ Return(t, req[t].endpoint, Join(transcript_list), Join(transcript_list))
       \/ /\ Return(t, req[t].endpoint, None, None)
          /\ UNCHANGED transcript_cache
    /\ UNCHANGED req

(***************************************************************************)
(* POST /api/tutor/ask (lines 75-129)                                      *)
(***************************************************************************)
\* lines 78-97: read the body, validate, build the basic context, and with a
\* video id enter get_cached_transcript
AskTutor(t) ==
    /\ \E r \in Requests :
        /\ r.endpoint = "ask"
        /\ Accept(t, r)
        /\ IF r.data # "object"
           THEN Raise(t)
           ELSE IF ~Truthy(r.question)
           THEN Respond(t, Reply(400)) /\ UNCHANGED loc
           ELSE IF r.video_id # ""
           THEN GctCall(t, r.video_id)
           ELSE /\ pc' = [pc EXCEPT ![t] = "ask_llm"]
                /\ loc' = [loc EXCEPT ![t].video_transcript = EmptyStr]
                /\ UNCHANGED resp
    /\ UNCHANGED transcript_cache

\* a handler that calls the LLM again when the call has raised
AskLlmRetries(t) ==
    /\ pc[t] = "ask_llm"
    /\ \/ /\ Respond(t, [Reply(200) EXCEPT !.cached =
                           IF req[t].video_id # ""
                           THEN Has(transcript_cache, req[t].video_id) ELSE FALSE])
          /\ UNCHANGED loc
       \/ UNCHANGED <<pc, loc, resp>>
    /\ UNCHANGED <<transcript_cache, req>>

\* lines 103-129: anthropic_client.messages.create replies.  With a message
\* the handler answers 200, cached read from the store; with an exception
\* it answers 500.
AskLlm(t) ==
    /\ pc[t] = "ask_llm"
    /\ \/ /\ Respond(t, [Reply(200) EXCEPT !.cached =
                           IF req[t].video_id # ""
                           THEN Has(transcript_cache, req[t].video_id) ELSE FALSE])
          /\ UNCHANGED loc
       \/ Raise(t)
    /\ UNCHANGED <<transcript_cache, req>>

(***************************************************************************)
(* POST /api/tutor/transcript (lines 131-155)                              *)
(***************************************************************************)
GetTranscript(t) ==
    /\ \E r \in Requests :
        /\ r.endpoint = "transcript"
        /\ Accept(t, r)
        /\ IF r.data # "object"
           THEN Raise(t)
           ELSE IF r.video_id = ""
           THEN Respond(t, Reply(400)) /\ UNCHANGED loc
           ELSE GctCall(t, r.video_id)
    /\ UNCHANGED transcript_cache

(***************************************************************************)
(* GET /api/tutor/cache-status (lines 157-167)                             *)
(***************************************************************************)
\* line 160: cached_videos = list(transcript_cache.keys())
CacheStatus(t) ==
    /\ \E r \in Requests : r.endpoint = "status" /\ Accept(t, r)
    /\ loc' = [loc EXCEPT ![t].cached_videos = Keys(transcript_cache)]
    /\ pc' = [pc EXCEPT ![t] = "st_values"]
    /\ UNCHANGED <<transcript_cache, resp>>

\* line 161: transcript_cache.values() and the iterator of the generator
StatusValues(t) ==
    /\ pc[t] = "st_values"
    /\ loc' = [loc EXCEPT ![t].it = [bound |-> TRUE, resized |-> FALSE,
                                     used |-> Len(transcript_cache), pos |-> 0],
                          ![t].total_size = 0]
    /\ pc' = [pc EXCEPT ![t] = "st_next"]
    /\ UNCHANGED <<transcript_cache, req, resp>>

\* line 161: one next() of the iterator.  It raises RuntimeError when the
\* dict has changed size since the iterator was made; no except clause is
\* around it, so the exception leaves the handler.  At the end of the dict
\* the sum is complete and lines 163-167 answer.
StatusNext(t) ==
    /\ pc[t] = "st_next"
    /\ LET it == loc[t].it
           d == transcript_cache
       IN IF (it.bound /\ Len(d) # it.used) \/ (~it.bound /\ it.resized)
          THEN /\ Respond(t, Escaped)
               /\ loc' = [loc EXCEPT ![t].it = NoIter]
          ELSE IF it.pos >= it.used
          THEN /\ Respond(t, [Reply(200) EXCEPT !.count = Len(loc[t].cached_videos),
                                                !.ids = loc[t].cached_videos,
                                                !.total = loc[t].total_size])
               /\ loc' = [loc EXCEPT ![t].it = NoIter]
          ELSE /\ loc' = [loc EXCEPT ![t].it.pos = it.pos + 1,
                                     ![t].total_size = @ + StrLen(d[it.pos + 1].v)]
               /\ UNCHANGED <<pc, resp>>
    /\ UNCHANGED <<transcript_cache, req>>

\* the iterator `it` over the dict d once the global name is rebound
Orphan(it, d) ==
    IF Len(d) # it.used
    THEN [bound |-> FALSE, resized |-> TRUE, used |-> 0, pos |-> 0]
    ELSE [bound |-> FALSE, resized |-> FALSE, used |-> it.used, pos |-> it.used]

\* the lengths of the values of d that `it` has not yielded yet
Rest(it, d) ==
    IF Len(d) # it.used THEN 0 ELSE TotalSize(SubSeq(d, it.pos + 1, Len(d)))

(***************************************************************************)
(* POST /api/tutor/clear-cache (lines 169-177)                             *)
(***************************************************************************)
\* line 173: cache_size = len(transcript_cache)
ClearLen(t) ==
    /\ \E r \in Requests : r.endpoint = "clear" /\ Accept(t, r)
    /\ loc' = [loc EXCEPT ![t].cache_size = Len(transcript_cache)]
    /\ pc' = [pc EXCEPT ![t] = "cl_rebind"]
    /\ UNCHANGED <<transcript_cache, resp>>

\* a clear without the global declaration: the assignment binds a local name
ClearCacheKeeps(t) ==
    /\ pc[t] = "cl_rebind"
    /\ Respond(t, [Reply(200) EXCEPT !.removed = loc[t].cache_size])
    /\ UNCHANGED <<transcript_cache, req, loc>>

\* lines 174-177: transcript_cache = {} binds the name to a new dict (the old
\* one is not emptied: an iterator over it keeps it), then the response
ClearCache(t) ==
    /\ pc[t] = "cl_rebind"
    /\ transcript_cache' = EmptyDict
    /\ loc' = [u \in Threads |->
                IF loc[u].it.bound THEN [loc[u] EXCEPT !.it = Orphan(@, transcript_cache),
                                                       !.total_size = @ + Rest(loc[u].it, transcript_cache)]
                ELSE loc[u]]
    /\ Respond(t, [Reply(200) EXCEPT !.removed = loc[t].cache_size])
    /\ UNCHANGED req

(***************************************************************************)
(* The history of a step of thread t                                       *)
(***************************************************************************)
\* the step of t stores a fetched transcript / rebinds the name
Stores(t) == pc[t] = "gct_fetch" /\ loc'[t].full_transcript # None

Clears(t) == pc[t] = "cl_rebind"

\* the history of thread u after the step of thread t
HistoryOf(t, u) ==
    LET accepted == pc[t] = "idle"
        r == req'[t]
        id == r.video_id
        old == hist.th[u]
        h == IF u = t /\ accepted
             THEN [NoHist EXCEPT
                     !.quietStart = r.endpoint = "status" /\ hist.quiet,
                     !.promised = IF pc'[t] \in {"gct_read", "gct_fetch"}
                                 THEN hist.lastRet[id] ELSE None]
             ELSE old
        mine == [h EXCEPT
            !.fetch = IF pc'[t] = "gct_fetch" THEN "called"
                      ELSE IF pc[t] = "gct_fetch"
                      THEN (IF Stores(t) THEN "ok" ELSE "failed")
                      ELSE @,
            !.llm = IF pc'[t] = "ask_llm" THEN "called"
                    ELSE IF pc[t] = "ask_llm"
                    THEN (IF resp'[t].status = 200 THEN "ok" ELSE "failed")
                    ELSE @,
            !.call = IF pc'[t] \in {"gct_read", "gct_fetch"} THEN "in"
                     ELSE IF pc[t] = "gct_fetch" THEN "returned"
                     ELSE IF pc[t] = "gct_read"
                     THEN (IF pc'[t] = "done" /\ resp'[t].status = 500 THEN "raised"
                                                                        ELSE "returned")
                     ELSE @,
            !.fetches = IF pc'[t] = "gct_fetch" THEN @ + 1 ELSE @,
            !.llms = IF pc'[t] = "ask_llm" THEN @ + 1 ELSE @,
            !.wroteLast = IF Stores(t) THEN TRUE ELSE @]
        base == IF u = t THEN mine ELSE h
        all == IF /\ pc'[u] \in {"st_values", "st_next"}
                  /\ Keys(transcript_cache') = loc'[u].cached_videos
               THEN base.totals \cup {TotalSize(transcript_cache')}
               ELSE base.totals
        more == base.more \/ Cardinality(all) > MaxSeen
        seen == IF more THEN {} ELSE all
    IN  IF u = t /\ pc'[t] = "idle" THEN NoHist
        ELSE IF Clears(t)
        THEN [base EXCEPT !.promised = None, !.overwritten = FALSE,
                          !.wroteLast = FALSE, !.totals = seen, !.more = more]
        ELSE IF Stores(t) /\ u # t
        THEN [base EXCEPT
                !.quietStart = FALSE,
                !.overtaken = @ \/ (pc[u] = "gct_fetch" /\ req[u].video_id = id),
                !.overwritten = @ \/ (/\ req[u].video_id = id
                                      /\ base.promised # None
                                      /\ base.promised # loc'[t].full_transcript),
                !.wroteLast = @ /\ req[u].video_id # id,
                !.totals = seen, !.more = more]
        ELSE [base EXCEPT !.totals = seen, !.more = more]

History(t) ==
    LET id == req'[t].video_id
    IN hist' =
        [ th |-> [u \in Threads |-> HistoryOf(t, u)],
          lastRet |-> IF Clears(t) THEN NoId
                      ELSE IF Stores(t)
                      THEN [hist.lastRet EXCEPT ![id] = loc'[t].full_transcript]
                      ELSE hist.lastRet,
          quiet |-> IF Clears(t) THEN TRUE ELSE IF Stores(t) THEN FALSE ELSE hist.quiet,
          preClearKeys |-> IF Clears(t) THEN KeySet(transcript_cache)
                           ELSE IF Stores(t) THEN {}
                           ELSE hist.preClearKeys ]

Next ==
    \E t \in Threads :
        \/ HealthCheck(t) /\ History(t) /\ UNCHANGED extractVars
        \/ AskTutor(t) /\ History(t) /\ UNCHANGED extractVars
        \/ GetTranscript(t) /\ History(t) /\ UNCHANGED extractVars
        \/ GctRead(t) /\ History(t) /\ UNCHANGED extractVars
        \/ GctFetch(t) /\ History(t) /\ UNCHANGED extractVars
        \/ AskLlm(t) /\ History(t) /\ UNCHANGED extractVars
        \/ CacheStatus(t) /\ History(t) /\ UNCHANGED extractVars
        \/ StatusValues(t) /\ History(t) /\ UNCHANGED extractVars
        \/ StatusNext(t) /\ History(t) /\ UNCHANGED extractVars
        \/ ClearLen(t) /\ History(t) /\ UNCHANGED extractVars
        \/ ClearCache(t) /\ History(t) /\ UNCHANGED extractVars
        \/ Retire(t) /\ History(t) /\ UNCHANGED extractVars

Spec == Init /\ [][Next]_vars

\* The server with one request at a time: a request is accepted only when no
\* other is being served.
Sequential == \A t, u \in Threads : t # u => (pc[t] = "idle" \/ pc[u] = "idle")

NextSeq ==
    \E t \in Threads :
        \/ HealthCheck(t) /\ History(t) /\ Sequential' /\ UNCHANGED extractVars
        \/ AskTutor(t) /\ History(t) /\ Sequential' /\ UNCHANGED extractVars
        \/ GetTranscript(t) /\ History(t) /\ Sequential' /\ UNCHANGED extractVars
        \/ GctRead(t) /\ History(t) /\ Sequential' /\ UNCHANGED extractVars
        \/ GctFetch(t) /\ History(t) /\ Sequential' /\ UNCHANGED extractVars
        \/ AskLlm(t) /\ History(t) /\ Sequential' /\ UNCHANGED extractVars
        \/ CacheStatus(t) /\ History(t) /\ Sequential' /\ UNCHANGED extractVars
        \/ StatusValues(t) /\ History(t) /\ Sequential' /\ UNCHANGED extractVars
        \/ StatusNext(t) /\ History(t) /\ Sequential' /\ UNCHANGED extractVars
        \/ ClearLen(t) /\ History(t) /\ Sequential' /\ UNCHANGED extractVars
        \/ ClearCache(t) /\ History(t) /\ Sequential' /\ UNCHANGED extractVars
        \/ Retire(t) /\ History(t) /\ Sequential' /\ UNCHANGED extractVars

SpecSeq == Init /\ [][NextSeq]_vars

\* extract_video_id alone: it is called once with some url; the server is
\* at rest (no handler calls the function).
InitExtract ==
    /\ transcript_cache = EmptyDict
    /\ pc = [t \in Threads |-> "idle"]
    /\ req = [t \in Threads |-> NoReq]
    /\ loc = [t \in Threads |-> NoLoc]
    /\ resp = [t \in Threads |-> NoResp]
    /\ hist = [ th           |-> [t \in Threads |-> NoHist],
                lastRet      |-> NoId,
                quiet        |-> FALSE,
                preClearKeys |-> {} ]
    /\ url \in Urls
    /\ match = NotCalled

ExtractVideoId ==
    /\ ~match.called
    /\ match' = Returned(extract_video_id(url))
    /\ UNCHANGED <<url, vars>>

SpecExtract == InitExtract /\ [][ExtractVideoId]_<<vars, extractVars>>

(***************************************************************************)
(* Properties                                                              *)
(***************************************************************************)
Done(t) == pc[t] = "done"

H(t) == hist.th[t]

\* thread t takes the step that rebinds the name / that stores a transcript
ClearStep(t) == pc[t] = "cl_rebind" /\ pc'[t] = "done"

StoreStep(t) == pc[t] = "gct_fetch" /\ pc'[t] # "gct_fetch" /\ loc'[t].full_transcript # None

FailStep(t) == pc[t] = "gct_fetch" /\ pc'[t] # "gct_fetch" /\ loc'[t].full_transcript = None

\* thread t accepts a request and enters get_cached_transcript
CallStep(t) == pc[t] = "idle" /\ pc'[t] \in {"gct_read", "gct_fetch"}

\* how many items of d have the key k
Count(d, k) == Cardinality({i \in 1..Len(d) : d[i].k = k})

\* d2 is d with the one entry k -> v added or replaced, all else as it was
OnlyEntrySet(d, d2, k, v) ==
    /\ KeySet(d2) = KeySet(d) \cup {k}
    /\ \A j \in KeySet(d2) : Count(d2, j) = 1
    /\ Get(d2, k) = v
    /\ \A j \in KeySet(d) \ {k} : Get(d2, j) = Get(d, j)

\* C1 (as claimed): once a call has returned a transcript of an id from a
\* successful fetch and no clear has happened since, every later call for
\* the id returns that same transcript and does not call the transcript
\* service.
C1_Original ==
    \A t \in Threads :
        (H(t).call = "returned" /\ H(t).promised # None)
            => (loc[t].video_transcript = H(t).promised /\ H(t).fetch = "no")

\* C1 (amended): the same, unless a concurrent call that had missed on the id
\* has stored a different transcript for it in between; the later call never
\* calls the transcript service.
C1_Amended ==
    \A t \in Threads :
        (H(t).call = "returned" /\ H(t).promised # None)
            => /\ H(t).fetch = "no"
               /\ ~H(t).overwritten => loc[t].video_transcript = H(t).promised

C1_Witness ==
    \E t \in Threads :
        /\ Done(t) /\ H(t).call = "returned" /\ H(t).promised # None /\ ~H(t).overwritten
        /\ Len(transcript_cache) = 2

\* C2: when the transcript service fails inside a call for id X, the call
\* returns None and stores nothing, so X is a key afterwards only if another
\* call stored it meanwhile; and a call that finds X absent calls the service.
C2_NegativeNotCached ==
    [][\A t \in Threads :
        /\ FailStep(t) =>
            /\ transcript_cache' = transcript_cache
            /\ loc'[t].video_transcript = None
            /\ Has(transcript_cache', req[t].video_id) => H(t).overtaken
        /\ (CallStep(t) /\ ~Has(transcript_cache, req'[t].video_id)) =>
            pc'[t] = "gct_fetch"]_vars

C2_Witness ==
    \E t, u \in Threads :
        /\ t # u
        /\ Done(t) /\ H(t).fetch = "failed" /\ loc[t].video_transcript = None
        /\ ~Has(transcript_cache, req[t].video_id)
        /\ pc[u] = "gct_fetch" /\ req[u].video_id = req[t].video_id

\* C3: a cache_status that runs after a clear with nothing stored in between
\* reports count 0, no ids and total size 0; the clear leaves the store
\* empty; and a call for an id that was a key before the clear, made before
\* anything is stored again, calls the transcript service.
C3_ClearResets ==
    /\ [](\A t \in Threads :
            (Done(t) /\ req[t].endpoint = "status" /\ H(t).quietStart)
                => /\ resp[t].status = 200 /\ resp[t].by = "handler"
                   /\ resp[t].count = 0 /\ resp[t].ids = <<>> /\ resp[t].total = 0)
    /\ [][\A t \in Threads :
            /\ ClearStep(t) => transcript_cache' = EmptyDict
            /\ (CallStep(t) /\ hist.quiet /\ req'[t].video_id \in hist.preClearKeys)
                  => pc'[t] = "gct_fetch"]_vars

C3_Witness ==
    \E t, u \in Threads :
        /\ Done(t) /\ req[t].endpoint = "status" /\ H(t).quietStart
        /\ hist.quiet /\ hist.preClearKeys # {}
        /\ pc[u] = "gct_fetch" /\ req[u].video_id \in hist.preClearKeys

\* C4: the store changes only by the step of a call that stores the text it
\* fetched, which sets the one entry of its id and leaves the others as they
\* were, and by the clear, which leaves it empty.
C4_Frame ==
    [][transcript_cache' # transcript_cache =>
        \E t \in Threads :
            \/ /\ StoreStep(t)
               /\ OnlyEntrySet(transcript_cache, transcript_cache',
                               req[t].video_id, loc'[t].full_transcript)
            \/ /\ ClearStep(t)
               /\ transcript_cache' = EmptyDict]_vars

C4_Witness ==
    /\ Len(transcript_cache) = 2
    /\ \E t \in Threads : Done(t) /\ H(t).fetch = "ok" /\ H(t).wroteLast
    /\ \E t \in Threads : Done(t) /\ H(t).fetch = "failed"

\* C5 (as claimed): an entry of the store keeps its transcript in every step
\* but the clear.
C5_Original ==
    [][\A v \in VideoIds :
        Has(transcript_cache, v) =>
            \/ Has(transcript_cache', v) /\ Get(transcript_cache', v) = Get(transcript_cache, v)
            \/ \E t \in Threads : ClearStep(t)]_vars

\* C5 (amended): an entry of the store keeps its transcript in every step but
\* the clear and the store of a call that had missed on the id before the
\* entry was written (concurrent miss, last write wins).
C5_Amended ==
    [][\A v \in VideoIds :
        Has(transcript_cache, v) =>
            \/ Has(transcript_cache', v) /\ Get(transcript_cache', v) = Get(transcript_cache, v)
            \/ \E t \in Threads : ClearStep(t)
            \/ \E t \in Threads :
                /\ StoreStep(t) /\ req[t].video_id = v /\ H(t).overtaken
                /\ Has(transcript_cache', v)
                /\ Get(transcript_cache', v) = loc'[t].full_transcript]_vars

C5_Witness ==
    \E t, u \in Threads :
        /\ t # u /\ req[t].video_id = req[u].video_id
        /\ H(t).fetch = "ok" /\ H(u).fetch = "ok"
        /\ H(t).overtaken /\ H(t).wroteLast
        /\ loc[t].video_transcript # loc[u].video_transcript
        /\ Has(transcript_cache, req[t].video_id)
        /\ Get(transcript_cache, req[t].video_id) = loc[t].video_transcript

\* C6: the number clear_cache reports is the number of entries the store has
\* right before the step that empties it, and the store is empty after it.
C6_ClearAtomic ==
    [][\A t \in Threads :
        ClearStep(t) => /\ resp'[t].removed = Len(transcript_cache)
                        /\ transcript_cache' = EmptyDict]_vars

\* C7: what cache_status reports is one state the store had during the call:
\* the count and the ids are that state's keys and the total size is the sum
\* of the lengths of that state's transcripts.
C7_StatusSnapshot ==
    \A t \in Threads :
        (Done(t) /\ req[t].endpoint = "status" /\ resp[t].by = "handler" /\ ~H(t).more)
            => /\ resp[t].count = Len(resp[t].ids)
               /\ resp[t].total \in H(t).totals

\* C8: when two calls for the same id have both fetched with success and
\* returned, and no clear has come after the later store, the store has one
\* entry for the id and it is the transcript of the call that stored last.
C8_LastWriteWins ==
    \A t, u \in Threads :
        (/\ t # u /\ Done(t) /\ Done(u)
         /\ req[t].video_id = req[u].video_id
         /\ H(t).fetch = "ok" /\ H(u).fetch = "ok"
         /\ H(t).wroteLast)
            => /\ ~H(u).wroteLast
               /\ Count(transcript_cache, req[t].video_id) = 1
               /\ Get(transcript_cache, req[t].video_id) = loc[t].video_transcript

C8_Witness ==
    \E t, u \in Threads :
        /\ t # u /\ Done(t) /\ Done(u)
        /\ req[t].video_id = req[u].video_id
        /\ H(t).fetch = "ok" /\ H(u).fetch = "ok"
        /\ H(t).wroteLast
        /\ loc[t].video_transcript # loc[u].video_transcript

\* C9: an ask request whose question is missing or empty is answered 400 and
\* calls neither the LLM nor the transcript service.
C9_Validation ==
    \A t \in Threads :
        (Done(t) /\ req[t].endpoint = "ask" /\ ~Truthy(req[t].question))
            => (resp[t].status = 400 /\ H(t).llm = "no" /\ H(t).fetch = "no")

\* C10: an ask request with a question and a video id whose fetch fails and
\* whose LLM call succeeds is answered 200 from a context without transcript
\* part, with cached false.
C10_SoftFailure ==
    \A t \in Threads :
        (/\ Done(t) /\ req[t].endpoint = "ask" /\ Truthy(req[t].question)
         /\ req[t].video_id # "" /\ H(t).fetch = "failed" /\ H(t).llm = "ok")
            => /\ resp[t].status = 200
               /\ loc[t].context = NoContext
               /\ resp[t].cached = FALSE

\* C11: an ask request whose LLM call raised is answered once, by the
\* handler, with 500, and has stored nothing: the store has no entry that
\* this request added.
C11_AtomicFailure ==
    \A t \in Threads :
        (Done(t) /\ req[t].endpoint = "ask" /\ H(t).llm = "failed")
            => /\ resp[t].status = 500 /\ resp[t].by = "handler"
               /\ H(t).fetch # "ok"

\* C12: every response is one the request's handler has built, with status
\* 200, 400, 404 or 500: no exception leaves a handler.
C12_CatchAll ==
    \A t \in Threads :
        Done(t) => /\ resp[t].by = "handler"
                   /\ resp[t].status \in {200, 400, 404, 500}

\* C13: a request calls the transcript service at most once and the LLM at
\* most once, and a request whose LLM call has failed has answered: it does
\* not call the LLM again.
C13_NoRetry ==
    \A t \in Threads :
        /\ H(t).fetches <= 1
        /\ H(t).llms <= 1
        /\ H(t).fetch = "failed" => pc[t] \in {"ask_llm", "done"}
        /\ H(t).llm = "failed" => (Done(t) /\ resp[t].status = 500)

C13_Witness ==
    \E t \in Threads :
        /\ Done(t) /\ H(t).fetch = "failed" /\ H(t).llm = "failed"
        /\ H(t).fetches = 1 /\ H(t).llms = 1

\* the first min(3000, len) characters of the text s
Prefix3000(s) == Str(s.src, IF s.len < 3000 THEN s.len ELSE 3000)

\* thread t serves an ask request with a video id, get_cached_transcript has
\* returned a transcript and the LLM has been called with the context
SentWithTranscript(t) ==
    /\ req[t].endpoint = "ask" /\ req[t].video_id # ""
    /\ H(t).llm # "no"
    /\ loc[t].video_transcript # None

\* C14 (as claimed): for every transcript, of any length, the context sent to
\* the LLM has the first min(3000, len) characters of the transcript followed
\* by "...", and nothing of the transcript past them.
C14_Original ==
    \A t \in Threads :
        SentWithTranscript(t)
            => loc[t].context = [transcript |-> Prefix3000(loc[t].video_transcript),
                                 suffix |-> "..."]

\* C14 (amended): the same for every transcript that is not empty; for the
\* empty transcript the context has no transcript part and no suffix.
C14_Amended ==
    \A t \in Threads :
        SentWithTranscript(t)
            => IF StrLen(loc[t].video_transcript) > 0
               THEN /\ loc[t].context = [transcript |-> Prefix3000(loc[t].video_transcript),
                                         suffix |-> "..."]
                    /\ StrLen(loc[t].context.transcript) <= 3000
               ELSE loc[t].context = NoContext

C14_Witness ==
    \E t, u \in Threads :
        /\ SentWithTranscript(t) /\ StrLen(loc[t].video_transcript) > 3000
        /\ StrLen(loc[t].context.transcript) = 3000
        /\ SentWithTranscript(u) /\ StrLen(loc[u].video_transcript) \in 1..2999
        /\ loc[u].context.transcript = loc[u].video_transcript

\* the 11 characters of s from position i on are id characters
IdAt(s, i) ==
    /\ i + 10 <= Len(s)
    /\ \A j \in i..(i + 10) : s[j] \in IdChars

\* the tokens of s: the 11 id characters that directly follow a "v=" or a "/"
TokensAfterMarker(s) ==
    {SubSeq(s, i + 2, i + 12) :
        i \in {i \in 1..Len(s) : i + 1 <= Len(s) /\ s[i] = "v" /\ s[i + 1] = "=" /\ IdAt(s, i + 2)}}
    \cup
    {SubSeq(s, i + 1, i + 11) :
        i \in {i \in 1..Len(s) : s[i] = "/" /\ IdAt(s, i + 1)}}

\* the orders the three rules can be applied in
RuleOrders ==
    {<<patterns[f[1]], patterns[f[2]], patterns[f[3]]>> :
        f \in {f \in [1..3 -> 1..3] : \A i, j \in 1..3 : i # j => f[i] # f[j]}}

\* the result is the token of the first of the rules, in the order of the
\* source, that matches, and it is such a token of the input; the result is
\* NotFound exactly when the input has no such token
ExtractsToken ==
    /\ match.found = (\E i \in 1..3 : Search(patterns[i], url).found)
    /\ match.found =>
          LET first == CHOOSE i \in 1..3 :
                          /\ Search(patterns[i], url).found
                          /\ \A j \in 1..(i - 1) : ~Search(patterns[j], url).found
          IN  /\ match.group1 = Search(patterns[first], url).group1
              /\ Len(match.group1) = 11
              /\ \A j \in 1..11 : match.group1[j] \in IdChars
              /\ match.group1 \in TokensAfterMarker(url)
    /\ ~match.found <=> TokensAfterMarker(url) = {}

\* the result is the same whatever the order of the rules
OrderFree ==
    \A ps \in RuleOrders :
        /\ ExtractWith(ps, url).found = match.found
        /\ ExtractWith(ps, url).group1 = match.group1

\* C15 (as claimed): extract_video_id returns the token captured by the
\* first rule that matches, 11 id characters that directly follow a "v=" or
\* a "/" of the input; it returns None exactly when the input has no such
\* token; and the result is the same for every order of the three rules.
C15_Original ==
    match.called => (ExtractsToken /\ OrderFree)

\* C15 (amended): the same, the result being the same for every order of the
\* rules when all the tokens of the input that follow a "v=" or a "/" are
\* the same token.
C15_Amended ==
    match.called =>
        /\ ExtractsToken
        /\ Cardinality(TokensAfterMarker(url)) <= 1 => OrderFree

C15_Witness ==
    /\ match.called /\ match.found
    /\ Search(patterns[3], url).found
    /\ Cardinality(TokensAfterMarker(url)) = 1
    /\ Len(url) > 30

\* C16: a call of get_cached_transcript returns a transcript or None and
\* never raises, whatever the other threads store or clear meanwhile.
C16_Total ==
    \A t \in Threads : H(t).call # "raised"

\* C17: a transcript request with a video id, served with no other request
\* running, is answered 404 exactly when the id is no key of the store
\* afterwards, and 200 with the length of the stored transcript exactly when
\* it is a key, whatever transcript the service returned.
C17_AgreesWithStore ==
    \A t \in Threads :
        (/\ Done(t) /\ req[t].endpoint = "transcript"
         /\ req[t].data = "object" /\ req[t].video_id # "")
            => /\ resp[t].status = 404 <=> ~Has(transcript_cache, req[t].video_id)
               /\ Has(transcript_cache, req[t].video_id)
                     <=> /\ resp[t].status = 200
                         /\ Has(transcript_cache, req[t].video_id)
                         /\ resp[t].length = StrLen(Get(transcript_cache, req[t].video_id))

\* C18: a 200 response of ask has cached = true exactly when the context the
\* request sent to the LLM had a transcript part.
C18_CachedFlag ==
    \A t \in Threads :
        (Done(t) /\ req[t].endpoint = "ask" /\ resp[t].status = 200)
            => (resp[t].cached <=> loc[t].context # NoContext)

====
